---- MODULE Spec2Model ----
(***************************************************************************)
(* Reporter (trains/backend_interface/metrics/reporter.py): the event      *)
(* buffer, the threshold-triggered write, flush and scope exit; and the    *)
(* request dispatcher InterfaceBase._send (trains/backend_interface/       *)
(* base.py).                                                               *)
(*                                                                         *)
(* An event is named by its admission number 1, 2, ...; the classes of the *)
(* events a call builds are kept in the record of that call.  Strings are  *)
(* sequences of characters and Python's None is the value None.  The       *)
(* handle of an asynchronous write is named by the batch it carries.       *)
(***************************************************************************)
EXTENDS Integers, Sequences, FiniteSets, TLC

\* ---- bounds of the model ----
MaxEvents == 2
MaxThreshold == 3
MaxRaises == 1
MaxSends == 3

VARIABLES
    events,          \* self._events
    flush_threshold, \* self._flush_threshold
    async_enable,    \* self._async_enable
    storage_uri,     \* self._storage_uri
    results,         \* the async result set of AsyncManagerMixin (handles)
    resolved,        \* handles whose asynchronous write has completed
    delivered,       \* history: the batches of the write_events calls that returned, concatenated
    refused,         \* history: the batches of the write_events calls that raised, one by one
    admitted,        \* history: every event appended to the buffer, in order
    pc,              \* "idle", or "flush_wait" while flush() is in wait_for_results
    last,            \* history: the call the Reporter ran last
    dropped,         \* history: the buffered events that were in the buffer at an exit
                     \* via an error and have not been handed to write_events since
    run,             \* history: the report_scalar calls in a row since the buffer was empty
    asyncWrites,     \* history: how many write_events calls made with async_enable true
                     \* have returned since the last wait_for_results
    heap,            \* the list objects: which one self._events refers to, and the
                     \* lists handed to write_events that are still referred to
    snd              \* the _send call of the dispatcher: its arguments, position and history

reporterVars == <<events, flush_threshold, async_enable, storage_uri, results, resolved,
                  delivered, refused, admitted, pc, last, dropped, run, asyncWrites,
                  heap>>

vars == <<events, flush_threshold, async_enable, storage_uri, results, resolved,
          delivered, refused, admitted, pc, last, dropped, run, asyncWrites, heap, snd>>

None == <<"None">>

Max(a, b) == IF a >= b THEN a ELSE b

Range(s) == {s[i] : i \in DOMAIN s}

RECURSIVE Flatten(_)
Flatten(bs) == IF bs = <<>> THEN <<>> ELSE bs[1] \o Flatten(Tail(bs))

Count(e, s) == Cardinality({i \in DOMAIN s : s[i] = e})

\* Python's truth value of an optional string.
Truthy(x) == x # None /\ x # <<>>

\* str.rstrip('/')
RECURSIVE rstrip(_)
rstrip(str) ==
    IF str # <<>> /\ str[Len(str)] = "/" THEN rstrip(SubSeq(str, 1, Len(str) - 1)) ELSE str

\* '/'.join(parts)
RECURSIVE join(_)
join(parts) ==
    IF parts = <<>> THEN <<>>
    ELSE IF Len(parts) = 1 THEN parts[1]
    ELSE parts[1] \o <<"/">> \o join(Tail(parts))

_set_storage_uri(value, storage_key_prefix) ==
    join(SelectSeq(<<rstrip(value), storage_key_prefix>>, Truthy))

flush_threshold_setter(value) == Max(0, value)

\* bool(value), of the Python values True, False, None, 0 and 1
bool(value) == value \in {"True", "1"}

async_enable_setter(value) == bool(value)

Outcomes == {"ok", "failed", "raised"}

\* An outcome the Metrics collaborator may produce for the next write_events call:
\* a response (ok or failed), a pending handle (ok) when asynchronous, or an error.
MayProduce(out) ==
    /\ out \in Outcomes
    /\ (out = "raised" => Len(refused) < MaxRaises)
    /\ (out = "failed" => ~async_enable)

\* ---- the async result tracker (AsyncManagerMixin) ----
_add_async_result(rs, h) == rs \cup {h}

get_num_results(rs) == Cardinality(rs)

\* The (path, matrix, upload_uri) of a call that takes none.
NoArgs == [path |-> None, matrix |-> None, upload_uri |-> None]

\* ---- the state a call works on, and what the call did ----
Self ==
    [events |-> events, results |-> results, admitted |-> admitted,
     writes |-> <<>>, reports |-> <<>>, kinds |-> <<>>, err |-> "none",
     wait |-> FALSE, nflush |-> 0, args |-> NoArgs,
     list |-> heap.events, handed |-> heap.handed]

\* A list object is named by the number of events admitted before it was made.
NewList(st) == Len(st.admitted)

\* The list st.events is handed to write_events, which does out.
HandedList(st, out) ==
    [list |-> st.list, batch |-> st.events, outcome |-> out, async |-> async_enable]

\* Metrics.write_events(events, async_enable, storage_uri): the record of the call;
\* left is the buffer once _write is over.
write_events(evs, out, left) ==
    [batch |-> evs, outcome |-> out, async |-> async_enable, storage_uri |-> storage_uri,
     left |-> left]

\* _write, had it cleared the buffer only after a successful response.
_write_KeepOnFailure(st, out) ==
    IF st.events = <<>> THEN st
    ELSE IF out # "ok"
         THEN [st EXCEPT !.writes = Append(@, write_events(st.events, out, st.events)),
                         !.err = IF out = "raised" THEN "write" ELSE @]
         ELSE [st EXCEPT !.writes = Append(@, write_events(st.events, out, <<>>)),
                         !.results = IF async_enable
                                     THEN _add_async_result(@, st.events) ELSE @,
                         !.events = <<>>]

\* _write, had it registered the result whatever async_enable is.
_write_AlwaysRegister(st, out) ==
    IF st.events = <<>> THEN st
    ELSE IF out = "raised"
         THEN [st EXCEPT !.writes = Append(@, write_events(st.events, out, st.events)),
                         !.err = "write"]
         ELSE [st EXCEPT !.writes = Append(@, write_events(st.events, out, <<>>)),
                         !.results = _add_async_result(@, st.events),
                         !.events = <<>>]

\* _write, had it left the buffer as it is after the write.
_write_NoClear(st, out) ==
    IF st.events = <<>> THEN st
    ELSE IF out = "raised"
         THEN [st EXCEPT !.writes = Append(@, write_events(st.events, out, st.events)),
                         !.err = "write"]
         ELSE [st EXCEPT !.writes = Append(@, write_events(st.events, out, st.events)),
                         !.results = IF async_enable
                                     THEN _add_async_result(@, st.events) ELSE @]

\* _write, had it emptied the list in place (del self._events[:]).
_write_ClearInPlace(st, out) ==
    IF st.events = <<>> THEN st
    ELSE IF out = "raised"
         THEN [st EXCEPT !.writes = Append(@, write_events(st.events, out, st.events)),
                         !.handed = @ \cup {HandedList(st, out)},
                         !.err = "write"]
         ELSE [st EXCEPT !.writes = Append(@, write_events(st.events, out, <<>>)),
                         !.handed = @ \cup {HandedList(st, out)},
                         !.results = IF async_enable
                                     THEN _add_async_result(@, st.events) ELSE @,
                         !.events = <<>>]

_write(st, out) ==
    IF st.events = <<>> THEN st
    ELSE IF out = "raised"
         THEN [st EXCEPT !.writes = Append(@, write_events(st.events, out, st.events)),
                         !.handed = @ \cup {HandedList(st, out)},
                         !.err = "write"]
         ELSE [st EXCEPT !.writes = Append(@, write_events(st.events, out, <<>>)),
                         !.handed = @ \cup {HandedList(st, out)},
                         !.results = IF async_enable
                                     THEN _add_async_result(@, st.events) ELSE @,
                         !.events = <<>>,
                         !.list = NewList(st)]

\* The record of one _report call that took st to s2.
Reported(st, ev, s2) ==
    [s2 EXCEPT !.reports = Append(@, [ev |-> ev.id, pre |-> st.events,
                                      writes |-> SubSeq(s2.writes, Len(st.writes) + 1,
                                                        Len(s2.writes)),
                                      post |-> s2.events, raised |-> s2.err # "none"])]

Appended(st, ev) ==
    [st EXCEPT !.events = Append(@, ev.id), !.admitted = Append(@, ev.id),
               !.kinds = Append(@, ev.kind)]

\* _report, had it written one event early.
_report_OffByOne(st, ev, out) ==
    LET s1 == Appended(st, ev)
    IN  Reported(st, ev, IF Len(s1.events) + 1 >= flush_threshold THEN _write(s1, out) ELSE s1)

\* _report, had it compared with > instead of >=.
_report_Strict(st, ev, out) ==
    LET s1 == Appended(st, ev)
    IN  Reported(st, ev, IF Len(s1.events) > flush_threshold THEN _write(s1, out) ELSE s1)

\* _report, had it taken a threshold of 0 for "no automatic write".
_report_ZeroDisabled(st, ev, out) ==
    LET s1 == Appended(st, ev)
    IN  Reported(st, ev, IF flush_threshold # 0 /\ Len(s1.events) >= flush_threshold
                         THEN _write(s1, out) ELSE s1)

\* _report, had it called flush() at the threshold instead of _write().
_report_Flushes(st, ev, out) ==
    LET s1 == Appended(st, ev)
        s2 == _write([s1 EXCEPT !.nflush = @ + 1], out)
    IN  Reported(st, ev,
                 IF Len(s1.events) >= flush_threshold
                 THEN IF s2.err # "none" THEN s2
                      ELSE [s2 EXCEPT !.wait = get_num_results(s2.results) > 0]
                 ELSE s1)

_report(st, ev, out) ==
    LET s1 == Appended(st, ev)
    IN  Reported(st, ev, IF Len(s1.events) >= flush_threshold THEN _write(s1, out) ELSE s1)

\* flush, had it waited only for more than one pending result.
flush_WaitForMany(st, out) ==
    LET s1 == _write([st EXCEPT !.nflush = @ + 1], out)
    IN  IF s1.err # "none" THEN s1
        ELSE [s1 EXCEPT !.wait = get_num_results(s1.results) > 1]

\* flush, had it only waited for the pending results.
flush_NoWrite(st, out) ==
    [st EXCEPT !.nflush = @ + 1, !.wait = get_num_results(st.results) > 0]

flush(st, out) ==
    LET s1 == _write([st EXCEPT !.nflush = @ + 1], out)
    IN  IF s1.err # "none" THEN s1
        ELSE [s1 EXCEPT !.wait = get_num_results(s1.results) > 0]

\* __exit__, had it flushed on an error and only then.
__exit__Inverted(st, exc_type, out) ==
    IF exc_type THEN flush(st, out) ELSE st

\* __exit__, had it flushed whatever the exit.
__exit__Always(st, exc_type, out) ==
    flush(st, out)

\* __exit__, had it thrown the buffer away on an error.
__exit__Discard(st, exc_type, out) ==
    IF ~exc_type THEN flush(st, out) ELSE [st EXCEPT !.events = <<>>]

__exit__(st, exc_type, out) ==
    IF ~exc_type THEN flush(st, out) ELSE st

NewEvent(st, kind) == [id |-> Len(st.admitted) + 1, kind |-> kind]

Raise(st, err) == [st EXCEPT !.err = err]

report_scalar(st, out) == _report(st, NewEvent(st, "ScalarEvent"), out)

\* report_vector, had it checked its argument after reporting the event.
report_vector_LateCheck(st, iterable, out) ==
    LET s1 == _report(st, NewEvent(st, "VectorEvent"), out)
    IN  IF ~iterable THEN Raise(s1, "ValueError: expected an iterable") ELSE s1

report_vector(st, iterable, out) ==
    IF ~iterable THEN Raise(st, "ValueError: expected an iterable")
    ELSE _report(st, NewEvent(st, "VectorEvent"), out)

\* plot is "dict", "str" or "other": the type of the argument.
report_plot(st, plot, out) ==
    IF plot # "dict" /\ plot # "str" THEN Raise(st, "ValueError: plot")
    ELSE _report(st, NewEvent(st, "PlotEvent"), out)

report_image(st, out) == _report(st, NewEvent(st, "ImageEventNoUpload"), out)

NumGiven(path, matrix) ==
    (IF path # None THEN 1 ELSE 0) + (IF matrix # None THEN 1 ELSE 0)

\* report_image_and_upload, had it checked path and matrix first.
report_image_and_upload_ArgsFirst(st, path, matrix, upload_uri, out) ==
    IF NumGiven(path, matrix) # 1
    THEN Raise(st, "ValueError: only one of")
    ELSE IF ~Truthy(storage_uri) /\ ~Truthy(upload_uri)
    THEN Raise(st, "ValueError: upload configuration")
    ELSE _report(st, NewEvent(st, "ImageEvent"), out)

report_image_and_upload(st, path, matrix, upload_uri, out) ==
    IF ~Truthy(storage_uri) /\ ~Truthy(upload_uri)
    THEN Raise(st, "ValueError: upload configuration")
    ELSE IF NumGiven(path, matrix) # 1
    THEN Raise(st, "ValueError: only one of")
    ELSE _report(st, NewEvent(st, "ImageEvent"), out)

\* report_histogram, report_line_plot, report_2d_scatter, report_3d_scatter,
\* report_value_matrix, report_value_surface: build a chart dict, then report_plot.
report_chart(st, out) == report_plot(st, "dict", out)

\* report_image_plot_and_upload, had it appended the image event with no
\* check of the threshold and left the check to report_plot.
report_image_plot_and_upload_OneCheck(st, path, matrix, upload_uri, out1, out2) ==
    IF ~Truthy(upload_uri) /\ ~Truthy(storage_uri)
    THEN Raise(st, "ValueError: upload configuration")
    ELSE IF NumGiven(path, matrix) # 1
    THEN Raise(st, "ValueError: only one of")
    ELSE LET ev == NewEvent(st, "ImageEvent")
             s1 == Reported(st, ev, Appended(st, ev))
         IN  report_plot(s1, "dict", out2)

report_image_plot_and_upload(st, path, matrix, upload_uri, out1, out2) ==
    IF ~Truthy(upload_uri) /\ ~Truthy(storage_uri)
    THEN Raise(st, "ValueError: upload configuration")
    ELSE IF NumGiven(path, matrix) # 1
    THEN Raise(st, "ValueError: only one of")
    ELSE LET s1 == _report(st, NewEvent(st, "ImageEvent"), out1)
         IN  IF s1.err # "none" THEN s1 ELSE report_plot(s1, "dict", out2)

\* ---- the end of a call: the new state and the record of the call ----
RECURSIVE Batches(_, _)
Batches(ws, raised) ==
    IF ws = <<>> THEN <<>>
    ELSE (IF (ws[1].outcome = "raised") = raised THEN <<ws[1].batch>> ELSE <<>>)
         \o Batches(Tail(ws), raised)

\* The events the write_events calls ws were handed.
Handed(ws) == UNION {Range(ws[i].batch) : i \in DOMAIN ws}

NoRun == [n |-> -1, writes |-> 0]

NewRun(evs) == IF evs = <<>> THEN [n |-> 0, writes |-> 0] ELSE NoRun

\* How many of the write_events calls ws were made with async_enable true and
\* raised (raised = TRUE) or returned (raised = FALSE).
NumAsync(ws, raised) ==
    Cardinality({i \in DOMAIN ws : ws[i].async /\ (ws[i].outcome = "raised") = raised})

\* The handed lists hs that are still referred to: by self._events (the list
\* buf), by a tracked result (rs), or by the call that has just handed them.
Referred(hs, buf, rs, new) ==
    {h \in hs : \/ h.list = buf
                \/ (h.async /\ h.outcome # "raised" /\ h.batch \in rs)
                \/ h \in new}

Commit(op, exc_type, s) ==
    /\ events' = s.events
    /\ results' = s.results
    /\ admitted' = s.admitted
    /\ delivered' = delivered \o Flatten(Batches(s.writes, FALSE))
    /\ refused' = refused \o Batches(s.writes, TRUE)
    /\ pc' = IF s.wait THEN "flush_wait" ELSE "idle"
    /\ last' = [op |-> op, exc_type |-> exc_type,
                outcome |-> IF s.err # "none" THEN "raised"
                            ELSE IF s.wait THEN "waiting" ELSE "returned",
                err |-> s.err, kinds |-> s.kinds, writes |-> s.writes,
                reports |-> s.reports,
                preEvents |-> events, preResults |-> results, preDropped |-> dropped,
                tracked |-> s.results, nflush |-> s.nflush, waited |-> FALSE,
                args |-> s.args]
    /\ dropped' = (IF op = "__exit__" /\ exc_type THEN dropped \cup Range(events) ELSE dropped)
                  \ Handed(s.writes)
    /\ run' = IF op = "report_scalar" /\ s.err = "none" /\ run.n >= 0
              THEN [n |-> run.n + 1, writes |-> run.writes + Len(s.writes)]
              ELSE NewRun(s.events)
    /\ asyncWrites' = asyncWrites + NumAsync(s.writes, FALSE)
    /\ heap' = [events |-> s.list,
                handed |-> Referred(s.handed, s.list, s.results, s.handed \ heap.handed)]
    /\ UNCHANGED <<flush_threshold, async_enable, storage_uri, resolved, snd>>

\* A setter, had it written the buffer once the buffer is at the threshold.
Setter_Writes(op) ==
    LET threshold == IF op = "flush_threshold" THEN flush_threshold' ELSE flush_threshold
        writes == events # <<>> /\ Len(events) >= threshold
    IN  /\ pc' = "idle"
        /\ events' = IF writes THEN <<>> ELSE events
        /\ delivered' = IF writes THEN delivered \o events ELSE delivered
        /\ last' = [op |-> op, exc_type |-> FALSE, outcome |-> "returned",
                    err |-> "none", kinds |-> <<>>,
                    writes |-> IF writes THEN <<write_events(events, "ok", <<>>)>> ELSE <<>>,
                    reports |-> <<>>,
                    preEvents |-> events, preResults |-> results, preDropped |-> dropped,
                    tracked |-> results, nflush |-> 0, waited |-> FALSE, args |-> NoArgs]
        /\ run' = NewRun(events')
        /\ dropped' = IF writes THEN {} ELSE dropped
        /\ heap' = [heap EXCEPT !.handed = Referred(@, heap.events, results, {})]
        /\ UNCHANGED <<results, resolved, refused, admitted, asyncWrites, snd>>

\* The record of a call that only sets an attribute.
Setter(op) ==
    /\ pc' = "idle"
    /\ last' = [op |-> op, exc_type |-> FALSE, outcome |-> "returned",
                err |-> "none", kinds |-> <<>>, writes |-> <<>>, reports |-> <<>>,
                preEvents |-> events, preResults |-> results, preDropped |-> dropped,
                tracked |-> results, nflush |-> 0, waited |-> FALSE, args |-> NoArgs]
    /\ run' = NewRun(events)
    /\ heap' = [heap EXCEPT !.handed = Referred(@, heap.events, results, {})]
    /\ UNCHANGED <<events, results, resolved, delivered, refused, admitted, dropped,
                   asyncWrites, snd>>

CanAdmit(n) == Len(admitted) + n <= MaxEvents

\* ---- the arguments the calls are tried with ----
\* (path, matrix, upload_uri) of the image-and-upload calls
ImageArgs ==
    { [path |-> <<"p">>, matrix |-> None,     upload_uri |-> <<"u">>],
      [path |-> None,    matrix |-> <<"m">>, upload_uri |-> None],
      [path |-> <<"p">>, matrix |-> None,     upload_uri |-> <<>>],
      [path |-> <<"p">>, matrix |-> <<"m">>, upload_uri |-> <<"u">>],
      [path |-> None,    matrix |-> None,     upload_uri |-> <<"u">>],
      [path |-> None,    matrix |-> None,     upload_uri |-> None] }

\* (value, metrics.storage_key_prefix) of the storage_uri setter
StorageArgs ==
    { [value |-> <<"/">>, storage_key_prefix |-> <<>>],
      [value |-> <<"s", "/">>, storage_key_prefix |-> <<"k">>] }

\* ---- actions of the Reporter ----
ReportScalar ==
    /\ pc = "idle" /\ CanAdmit(1)
    /\ \E out \in Outcomes :
        /\ MayProduce(out)
        /\ Commit("report_scalar", FALSE, report_scalar(Self, out))

ReportVector ==
    /\ pc = "idle" /\ CanAdmit(1)
    /\ \E iterable \in BOOLEAN, out \in Outcomes :
        /\ MayProduce(out)
        /\ Commit("report_vector", FALSE, report_vector(Self, iterable, out))

ReportPlot ==
    /\ pc = "idle" /\ CanAdmit(1)
    /\ \E plot \in {"dict", "str", "other"}, out \in Outcomes :
        /\ MayProduce(out)
        /\ Commit("report_plot", FALSE, report_plot(Self, plot, out))

ReportImage ==
    /\ pc = "idle" /\ CanAdmit(1)
    /\ \E out \in Outcomes :
        /\ MayProduce(out)
        /\ Commit("report_image", FALSE, report_image(Self, out))

ReportImageAndUpload ==
    /\ pc = "idle" /\ CanAdmit(1)
    /\ \E a \in ImageArgs, out \in Outcomes :
        /\ MayProduce(out)
        /\ Commit("report_image_and_upload", FALSE,
                  report_image_and_upload([Self EXCEPT !.args = a],
                                          a.path, a.matrix, a.upload_uri, out))

ReportChart ==
    /\ pc = "idle" /\ CanAdmit(1)
    /\ \E out \in Outcomes :
        /\ MayProduce(out)
        /\ Commit("report_chart", FALSE, report_chart(Self, out))

ReportImagePlotAndUpload ==
    /\ pc = "idle" /\ CanAdmit(2)
    /\ \E a \in ImageArgs, out1 \in Outcomes, out2 \in Outcomes :
        /\ MayProduce(out1) /\ MayProduce(out2)
        /\ Commit("report_image_plot_and_upload", FALSE,
                  report_image_plot_and_upload([Self EXCEPT !.args = a],
                                               a.path, a.matrix, a.upload_uri, out1, out2))

Flush ==
    /\ pc = "idle"
    /\ \E out \in Outcomes :
        /\ MayProduce(out)
        /\ Commit("flush", FALSE, flush(Self, out))

Exit ==
    /\ pc = "idle"
    /\ \E exc_type \in BOOLEAN, out \in Outcomes :
        /\ MayProduce(out)
        /\ Commit("__exit__", exc_type, __exit__(Self, exc_type, out))

\* wait_for_results(): returns once every tracked handle has resolved, and
\* clears the tracked set; flush() returns with it.
WaitForResults ==
    /\ pc = "flush_wait"
    /\ results \subseteq resolved
    /\ results' = {}
    /\ pc' = "idle"
    /\ last' = [last EXCEPT !.outcome = "returned", !.waited = TRUE]
    /\ asyncWrites' = 0
    /\ heap' = [heap EXCEPT !.handed = Referred(@, heap.events, {}, {})]
    /\ UNCHANGED <<events, flush_threshold, async_enable, storage_uri, resolved,
                   delivered, refused, admitted, dropped, run, snd>>

\* The worker of an asynchronous write completes it.
Resolve ==
    /\ \E h \in results \ resolved : resolved' = resolved \cup {h}
    /\ UNCHANGED <<events, flush_threshold, async_enable, storage_uri, results,
                   delivered, refused, admitted, pc, last, dropped, run, asyncWrites,
                   heap, snd>>

SetFlushThreshold ==
    /\ pc = "idle"
    /\ \E value \in -1..MaxThreshold : flush_threshold' = flush_threshold_setter(value)
    /\ Setter("flush_threshold")
    /\ UNCHANGED <<async_enable, storage_uri>>

SetAsyncEnable ==
    /\ pc = "idle"
    /\ \E value \in {"True", "False", "None", "0", "1"} :
        async_enable' = async_enable_setter(value)
    /\ Setter("async_enable")
    /\ UNCHANGED <<flush_threshold, storage_uri>>

SetStorageUri ==
    /\ pc = "idle"
    /\ \E a \in StorageArgs :
        storage_uri' = _set_storage_uri(a.value, a.storage_key_prefix)
    /\ Setter("storage_uri")
    /\ UNCHANGED <<flush_threshold, async_enable>>

SendIdle ==
    [pc |-> "idle", ignore_errors |-> FALSE, raise_on_errors |-> FALSE, batch |-> FALSE,
     log |-> FALSE, nsend |-> 0, logged |-> <<>>,
     first |-> [kind |-> "none", code |-> 0], res |-> [kind |-> "none", code |-> 0],
     exc |-> "none", sent |-> <<>>]

\* ---- the request dispatcher: InterfaceBase._send ----
Codes == {200, 202, 404, 500, 503}

NoResponse == [kind |-> "none", code |-> 0]

\* What session.send does in one call: it returns a response, or raises
\* requests.exceptions.BaseHTTPError, or raises another exception.
TransportOutcomes ==
    [kind : {"response"}, code : Codes]
    \cup {[kind |-> "BaseHTTPError", code |-> 0], [kind |-> "Exception", code |-> 0]}

Logged(s, level) == [s EXCEPT !.logged = Append(@, level)]

Returned(s, t) == [s EXCEPT !.pc = "returned", !.res = t]

Raised(s, exc, t) == [s EXCEPT !.pc = "raised", !.exc = exc, !.res = t]

\* The end of a pass that neither returned nor raised: log.info, and loop.
Retrying(s) == IF s.log THEN Logged(s, "info") ELSE s

Sent(s, t) ==
    [s EXCEPT !.nsend = @ + 1, !.first = IF @ = NoResponse THEN t ELSE @,
              !.sent = Append(@, t)]

\* _send, had it taken only 200 for a success.
_send_Only200(s, t) ==
    LET s1 == Sent(s, t)
    IN  IF t.kind = "response"
        THEN IF t.code = 200 \/ s.ignore_errors
             THEN Returned(s1, t)
             ELSE LET s2 == IF s.log THEN Logged(s1, "error") ELSE s1
                  IN  IF t.code <= 500
                      THEN IF s.raise_on_errors THEN Raised(s2, "SendError", t)
                           ELSE Returned(s2, t)
                      ELSE Retrying(s2)
        ELSE IF t.kind = "BaseHTTPError"
        THEN IF s.log THEN Retrying(Logged(s1, "error"))
             ELSE Raised(s1, "AttributeError", NoResponse)
        ELSE Raised(s1, t.kind, NoResponse)

\* _send, had it compared the result code with < 500.
_send_Below500(s, t) ==
    LET s1 == Sent(s, t)
    IN  IF t.kind = "response"
        THEN IF t.code \in {200, 202} \/ s.ignore_errors
             THEN Returned(s1, t)
             ELSE LET s2 == IF s.log THEN Logged(s1, "error") ELSE s1
                  IN  IF t.code < 500
                      THEN IF s.raise_on_errors THEN Raised(s2, "SendError", t)
                           ELSE Returned(s2, t)
                      ELSE Retrying(s2)
        ELSE IF t.kind = "BaseHTTPError"
        THEN IF s.log THEN Retrying(Logged(s1, "error"))
             ELSE Raised(s1, "AttributeError", NoResponse)
        ELSE Raised(s1, t.kind, NoResponse)

\* _send, had it retried after every response that is not a success.
_send_RetryEveryFailure(s, t) ==
    LET s1 == Sent(s, t)
    IN  IF t.kind = "response"
        THEN IF t.code \in {200, 202} \/ s.ignore_errors
             THEN Returned(s1, t)
             ELSE Retrying(IF s.log THEN Logged(s1, "error") ELSE s1)
        ELSE IF t.kind = "BaseHTTPError"
        THEN IF s.log THEN Retrying(Logged(s1, "error"))
             ELSE Raised(s1, "AttributeError", NoResponse)
        ELSE Raised(s1, t.kind, NoResponse)

\* One pass of the while loop of _send: session.send does t.
_send(s, t) ==
    LET s1 == Sent(s, t)
    IN  IF t.kind = "response"
        THEN IF t.code \in {200, 202} \/ s.ignore_errors
             THEN Returned(s1, t)
             ELSE LET s2 == IF s.log THEN Logged(s1, "error") ELSE s1
                  IN  IF t.code <= 500
                      THEN IF s.raise_on_errors THEN Raised(s2, "SendError", t)
                           ELSE Returned(s2, t)
                      ELSE Retrying(s2)
        ELSE IF t.kind = "BaseHTTPError"
        THEN IF s.log THEN Retrying(Logged(s1, "error"))
             ELSE Raised(s1, "AttributeError", NoResponse)
        ELSE Raised(s1, t.kind, NoResponse)

SendCall ==
    /\ snd.pc = "idle"
    /\ \E ignore_errors \in BOOLEAN, raise_on_errors \in BOOLEAN, batch \in BOOLEAN,
          log \in BOOLEAN :
        snd' = [SendIdle EXCEPT !.pc = "loop", !.ignore_errors = ignore_errors,
                                !.raise_on_errors = raise_on_errors, !.batch = batch,
                                !.log = log]
    /\ UNCHANGED reporterVars

SendLoop ==
    /\ snd.pc = "loop"
    /\ snd.nsend < MaxSends
    /\ \E t \in TransportOutcomes : snd' = _send(snd, t)
    /\ UNCHANGED reporterVars

SendEnd ==
    /\ snd.pc \in {"returned", "raised"}
    /\ snd' = SendIdle
    /\ UNCHANGED reporterVars

\* Reporter.__init__(metrics, flush_threshold, async_enable)
InitReporter(threshold, async) ==
    /\ events = <<>>
    /\ flush_threshold = threshold
    /\ async_enable = async
    /\ storage_uri = None
    /\ results = {}
    /\ resolved = {}
    /\ delivered = <<>>
    /\ refused = <<>>
    /\ admitted = <<>>
    /\ pc = "idle"
    /\ last = [op |-> "__init__", exc_type |-> FALSE, outcome |-> "returned",
               err |-> "none", kinds |-> <<>>, writes |-> <<>>, reports |-> <<>>,
               preEvents |-> <<>>, preResults |-> {}, preDropped |-> {},
               tracked |-> {}, nflush |-> 0, waited |-> FALSE, args |-> NoArgs]
    /\ dropped = {}
    /\ run = NewRun(<<>>)
    /\ asyncWrites = 0
    /\ heap = [events |-> 0, handed |-> {}]

Init ==
    /\ \E threshold \in -1..MaxThreshold, async \in BOOLEAN : InitReporter(threshold, async)
    /\ snd = SendIdle

Next ==
    \/ ReportScalar
    \/ ReportVector
    \/ ReportPlot
    \/ ReportImage
    \/ ReportImageAndUpload
    \/ ReportChart
    \/ ReportImagePlotAndUpload
    \/ Flush
    \/ Exit
    \/ WaitForResults
    \/ Resolve
    \/ SetFlushThreshold
    \/ SetAsyncEnable
    \/ SetStorageUri

Spec == Init /\ [][Next]_vars

\* The dispatcher alone, next to a Reporter built with the default arguments.
SendInit ==
    /\ InitReporter(10, FALSE)
    /\ snd = SendIdle

SendNext ==
    \/ SendCall
    \/ SendLoop
    \/ SendEnd

SendSpec == SendInit /\ [][SendNext]_vars

\* ---- the claims ----
ReportOps ==
    {"report_scalar", "report_vector", "report_plot", "report_image",
     "report_image_and_upload", "report_chart", "report_image_plot_and_upload"}

IsFlush == last.nflush = 1

\* C1: from an empty buffer and with a threshold T > 0, after k < T successful
\* report_scalar calls in a row the buffer holds k events and write_events has
\* not been called.
C1_BelowThresholdOnlyBuffers ==
    (flush_threshold > 0 /\ run.n >= 0 /\ run.n < flush_threshold)
        => (Len(events) = run.n /\ run.writes = 0)

C1_Witness ==
    /\ last.op = "report_scalar" /\ last.outcome = "returned"
    /\ flush_threshold = 3 /\ run.n = 2 /\ Len(events) = 2

\* C2: with a threshold T > 0, a _report whose append brings the buffer to T
\* events or more calls write_events exactly once, with the whole buffer, and
\* the buffer is empty when it returns.
C2_ThresholdWritesWholeBuffer ==
    flush_threshold > 0 =>
        \A i \in DOMAIN last.reports :
            LET r == last.reports[i]
            IN  Len(r.pre) + 1 >= flush_threshold
                    => /\ Len(r.writes) = 1
                       /\ r.writes[1].batch = Append(r.pre, r.ev)
                       /\ (~r.raised => r.post = <<>>)

C2_Witness ==
    /\ flush_threshold = 2
    /\ \E i \in DOMAIN last.reports :
        /\ Len(last.reports[i].pre) = 1
        /\ ~last.reports[i].raised
        /\ last.reports[i].post = <<>>

\* C3 as stated: after an internal write on a non-empty buffer the buffer is
\* empty whatever the outcome of write_events, and no event is offered to
\* write_events twice.
C3_Original ==
    /\ \A i \in DOMAIN last.writes : last.writes[i].left = <<>>
    /\ \A e \in Range(admitted) : Count(e, delivered \o Flatten(refused)) <= 1

\* C3 as amended: after an internal write on a non-empty buffer the buffer is
\* empty when write_events returned (a success or a failed response) and the
\* batch is never offered again; when write_events raised, the buffer still
\* holds the whole batch.
C3_ClearedUnlessRaised ==
    /\ \A i \in DOMAIN last.writes :
        LET w == last.writes[i]
        IN  /\ w.batch # <<>>
            /\ (w.outcome # "raised" => w.left = <<>>)
            /\ (w.outcome = "raised" => w.left = w.batch)
    /\ \A e \in Range(admitted) : Count(e, delivered) <= 1

C3_Witness ==
    /\ refused # <<>>
    /\ \E i \in DOMAIN last.writes :
        last.writes[i].outcome = "failed" /\ last.writes[i].left = <<>>

\* C4: a flush() that finds N >= 1 tracked async writes (registered earlier or
\* by its own write, whatever async_enable is now) returns only when every one
\* of them has resolved, and get_num_results() is 0 when it returns.
C4_FlushWaitsForAll ==
    (IsFlush /\ last.outcome = "returned" /\ last.tracked # {})
        => /\ last.waited
           /\ last.tracked \subseteq resolved
           /\ get_num_results(results) = 0

C4_Witness ==
    /\ last.op = "flush" /\ last.outcome = "returned"
    /\ Cardinality(last.tracked) = 2
    /\ ~async_enable

\* C5 as stated: after flush() returns normally the buffer is empty and every
\* event admitted so far has been handed to write_events exactly once.
C5_Original ==
    (IsFlush /\ last.outcome = "returned")
        => /\ events = <<>>
           /\ \A e \in Range(admitted) : Count(e, delivered \o Flatten(refused)) = 1

\* C5 as amended: after flush() returns normally the buffer is empty and every
\* event admitted so far has been handed to exactly one write_events call that
\* returned (and, besides, to each write_events call that raised while it was
\* buffered).
C5_FlushedOnceByReturningWrite ==
    (IsFlush /\ last.outcome = "returned")
        => /\ events = <<>>
           /\ \A e \in Range(admitted) : Count(e, delivered) = 1

C5_Witness ==
    /\ last.op = "flush" /\ last.outcome = "returned"
    /\ refused # <<>>
    /\ Len(admitted) = 2
    /\ last.writes # <<>>

\* C6: an exit without an error calls flush() exactly once; with an empty
\* buffer and no pending async result that flush calls no write_events and
\* does not wait.
C6_NormalExitFlushesOnce ==
    (last.op = "__exit__" /\ ~last.exc_type)
        => /\ last.nflush = 1
           /\ (last.preEvents = <<>> /\ last.preResults = {}
                  => /\ last.writes = <<>>
                     /\ ~last.waited
                     /\ last.outcome = "returned")

C6_Witness ==
    /\ last.op = "__exit__" /\ ~last.exc_type
    /\ last.preEvents = <<>> /\ last.preResults = {}
    /\ admitted # <<>>

\* C7: an exit via an error does not flush: no write_events call, no
\* wait_for_results, and the async result set is as it was.
C7_ErrorExitDoesNotFlush ==
    (last.op = "__exit__" /\ last.exc_type)
        => /\ last.nflush = 0
           /\ last.writes = <<>>
           /\ ~last.waited
           /\ last.outcome = "returned"
           /\ results = last.preResults

C7_Witness ==
    /\ last.op = "__exit__" /\ last.exc_type
    /\ last.preEvents # <<>>
    /\ last.preResults # {}

\* C8 as stated: the events in the buffer at an exit via an error are handed
\* to write_events neither by that exit nor by any later call (looked at in the
\* runs where no write_events call raised).
C8_Original ==
    refused = <<>> => Handed(last.writes) \cap last.preDropped = {}

\* C8 as amended: an exit via an error hands no event to write_events and
\* leaves the buffer as it is: the events stay buffered, and the next write of
\* the Reporter hands them to write_events.
C8_ErrorExitKeepsBuffer ==
    /\ (last.op = "__exit__" /\ last.exc_type)
            => /\ events = last.preEvents
               /\ last.writes = <<>>
               /\ Range(events) \subseteq dropped
    /\ dropped \subseteq Range(events)
    /\ last.writes # <<>> => last.preDropped \subseteq Range(last.writes[1].batch)

C8_Witness ==
    /\ last.writes # <<>>
    /\ last.preDropped # {}
    /\ last.outcome = "returned"

\* C9 as stated: once the threshold is set to 0 the buffer never holds more
\* than the event of the report call in progress: it is empty after the setter,
\* and every report_* call that returns has written and left it empty (looked
\* at in the runs where no write_events call raised).
C9_Original ==
    (flush_threshold = 0 /\ refused = <<>>) =>
        /\ (last.op = "flush_threshold" => events = <<>>)
        /\ (last.op \in ReportOps /\ last.outcome = "returned"
                => last.writes # <<>> /\ events = <<>>)

\* C9 as amended: while the threshold is 0, every report_* call that returns
\* has called write_events in each of its _report steps, with the whole buffer
\* (the events buffered before the call included), and leaves the buffer empty.
C9_ZeroThresholdWritesEachReport ==
    (flush_threshold = 0 /\ last.op \in ReportOps /\ last.outcome = "returned")
        => /\ events = <<>>
           /\ last.reports # <<>>
           /\ \A i \in DOMAIN last.reports :
                LET r == last.reports[i]
                IN  /\ Len(r.writes) = 1
                    /\ r.writes[1].batch = Append(r.pre, r.ev)
                    /\ r.post = <<>>

C9_Witness ==
    /\ flush_threshold = 0
    /\ last.op \in ReportOps /\ last.outcome = "returned"
    /\ last.preEvents # <<>>
    /\ refused = <<>>

\* C10: when the first transport response has code 200 or 202, or when
\* ignore_errors is true, _send returns that response after exactly one
\* transport send, with no retry and nothing logged.
C10_SuccessReturnsAtOnce ==
    (snd.first.kind = "response" /\ (snd.first.code \in {200, 202} \/ snd.ignore_errors))
        => /\ snd.pc = "returned"
           /\ snd.res = snd.first
           /\ snd.nsend = 1
           /\ snd.logged = <<>>

C10_Witness ==
    /\ snd.pc = "returned"
    /\ snd.ignore_errors /\ snd.log
    /\ snd.res.code = 503

\* ---- the transport sends of the _send call, in order ----
LastSent == snd.sent[Len(snd.sent)]

\* A response that is neither a success nor above 500.
IsRejection(t) == t.kind = "response" /\ t.code \notin {200, 202} /\ t.code <= 500

\* C11 as stated: with ignore_errors false, a response whose code is not
\* 200/202 and is <= 500 ends the call after that send: SendError carrying the
\* response when raise_on_errors, the response itself otherwise; and an error
\* is logged in both cases.
C11_Original ==
    (~snd.ignore_errors /\ snd.sent # <<>> /\ IsRejection(LastSent))
        => /\ snd.pc = IF snd.raise_on_errors THEN "raised" ELSE "returned"
           /\ (snd.raise_on_errors => snd.exc = "SendError")
           /\ snd.res = LastSent
           /\ Count("error", snd.logged) >= 1

\* C11 as amended: with ignore_errors false, a response whose code is not
\* 200/202 and is <= 500 (500 included) is the last send of the call: the call
\* raises SendError carrying the response when raise_on_errors and returns the
\* response otherwise; the error is logged, in both cases, when a log was
\* given, and nothing is logged when none was.
C11_RejectionEndsCall ==
    /\ ~snd.ignore_errors =>
            \A i \in DOMAIN snd.sent : IsRejection(snd.sent[i]) => i = Len(snd.sent)
    /\ (~snd.ignore_errors /\ snd.sent # <<>> /\ IsRejection(LastSent))
        => /\ snd.pc = IF snd.raise_on_errors THEN "raised" ELSE "returned"
           /\ (snd.raise_on_errors => snd.exc = "SendError")
           /\ snd.res = LastSent
           /\ (snd.log => Count("error", snd.logged) = Len(snd.sent))
           /\ (~snd.log => snd.logged = <<>>)

C11_Witness ==
    /\ snd.pc = "raised" /\ snd.exc = "SendError"
    /\ snd.res.code = 500
    /\ snd.log /\ snd.nsend = 2

\* ---- the failures raised by the checks of the report_* calls ----
ValidationErrors ==
    {"ValueError: expected an iterable", "ValueError: plot", "ValueError: only one of"}

ConfigurationErrors == {"ValueError: upload configuration"}

\* C12: a report_* call that raises a validation failure or an upload
\* configuration failure raises it before it admits anything: the buffer, the
\* async result set and the flush threshold are as before the call, and the
\* call made no write_events call.
C12_FailureBeforeAdmission ==
    [][(last'.op \in ReportOps /\ last'.err \in ValidationErrors \cup ConfigurationErrors)
            => /\ events' = events
               /\ admitted' = admitted
               /\ results' = results
               /\ flush_threshold' = flush_threshold
               /\ delivered' = delivered /\ refused' = refused
               /\ last'.writes = <<>> /\ last'.reports = <<>> /\ last'.kinds = <<>>]_vars

C12_Witness ==
    /\ last.op = "report_image_and_upload"
    /\ last.err \in ConfigurationErrors
    /\ last.outcome = "raised"
    /\ events # <<>>
    /\ flush_threshold = 1

\* C13 as stated: report_image_and_upload admits an event if and only if an
\* upload_uri (a non-empty one) is given or a storage_uri was set before, and
\* exactly one of path and matrix is given; with no upload destination it
\* raises the configuration failure, whatever path and matrix are, and
\* otherwise, with both or neither of path and matrix, the validation failure.
C13_Original ==
    last.op = "report_image_and_upload" =>
        LET a == last.args
            dest == Truthy(a.upload_uri) \/ storage_uri # None
        IN  /\ (last.kinds # <<>>) <=> (dest /\ NumGiven(a.path, a.matrix) = 1)
            /\ (~dest => last.err \in ConfigurationErrors)
            /\ (dest /\ NumGiven(a.path, a.matrix) # 1 => last.err \in ValidationErrors)

\* C13 as amended: report_image_and_upload admits an event (one ImageEvent) if
\* and only if the upload_uri of the call is a non-empty string or the stored
\* storage_uri is a non-empty string, and exactly one of path and matrix is
\* given; without such a destination it raises the configuration failure,
\* whatever path and matrix are, and otherwise, with both or neither of path
\* and matrix, the validation failure.
C13_AdmitsIffDestinationAndOneSource ==
    last.op = "report_image_and_upload" =>
        LET a == last.args
            dest == Truthy(a.upload_uri) \/ Truthy(storage_uri)
        IN  /\ (last.kinds # <<>>) <=> (dest /\ NumGiven(a.path, a.matrix) = 1)
            /\ (last.kinds # <<>> => last.kinds = <<"ImageEvent">>)
            /\ (~dest => last.err \in ConfigurationErrors)
            /\ (dest /\ NumGiven(a.path, a.matrix) # 1 => last.err \in ValidationErrors)

C13_Witness ==
    /\ last.op = "report_image_and_upload"
    /\ last.kinds = <<"ImageEvent">>
    /\ last.args.upload_uri = None /\ last.args.path = None
    /\ Truthy(storage_uri)

\* C14: in every reachable state of a Reporter the flush threshold is an
\* integer >= 0, whether it was given at construction or through the setter.
C14_Original ==
    flush_threshold \in Nat

Ended == snd.pc \in {"returned", "raised"}

\* A response the loop of _send goes round again after.
IsRetriedResponse(t) == t.kind = "response" /\ t.code > 500 /\ ~snd.ignore_errors

\* C15 as stated: the request is sent again only after the transport raised
\* an infrastructure-level exception; every response the transport returns,
\* whatever its code, ends the call (return or SendError) with no further send.
C15_Original ==
    /\ \A i \in 1..(Len(snd.sent) - 1) : snd.sent[i].kind = "BaseHTTPError"
    /\ \A i \in DOMAIN snd.sent :
            snd.sent[i].kind = "response" => (i = Len(snd.sent) /\ Ended)

\* C15 as amended: the request is sent again only after the transport raised
\* an infrastructure-level exception or, with ignore_errors false, returned a
\* response whose code is above 500; every other response (code 200 or 202,
\* code <= 500, or any code when ignore_errors is true) ends the call, by
\* return or by SendError, with no further send.
C15_RetriesFaultOrAbove500 ==
    /\ \A i \in 1..(Len(snd.sent) - 1) :
            snd.sent[i].kind = "BaseHTTPError" \/ IsRetriedResponse(snd.sent[i])
    /\ \A i \in DOMAIN snd.sent :
            (snd.sent[i].kind = "response" /\ ~IsRetriedResponse(snd.sent[i]))
                => /\ i = Len(snd.sent)
                   /\ Ended
                   /\ snd.res = snd.sent[i]
                   /\ (snd.pc = "raised" => snd.exc = "SendError")
    /\ (snd.sent # <<>> /\ IsRetriedResponse(LastSent)) => snd.pc = "loop"

C15_Witness ==
    /\ snd.nsend = 2
    /\ snd.sent[1] = [kind |-> "response", code |-> 503]
    /\ snd.pc = "returned" /\ snd.res.code = 404

\* The first n transport sends of the call all raised BaseHTTPError.
AllFaults(n) == \A i \in 1..n : snd.sent[i].kind = "BaseHTTPError"

\* C16: infrastructure faults are retried without a cap and never surfaced:
\* when the transport faults on the first k sends and then returns a response
\* with code <= 500, the call ends after exactly k + 1 sends with the outcome
\* that response alone decides; while the transport has faulted on every send,
\* the call has neither returned nor raised.
C16_Original ==
    /\ (snd.sent # <<>> /\ AllFaults(Len(snd.sent))) => snd.pc = "loop"
    /\ (snd.sent # <<>> /\ AllFaults(Len(snd.sent) - 1)
            /\ LastSent.kind = "response" /\ LastSent.code <= 500)
        => /\ Ended
           /\ snd.nsend = Len(snd.sent)
           /\ snd.res = LastSent
           /\ snd.pc = IF LastSent.code \in {200, 202} \/ snd.ignore_errors
                          \/ ~snd.raise_on_errors
                       THEN "returned" ELSE "raised"
           /\ (snd.pc = "raised" => snd.exc = "SendError")

\* The events of the write_events calls that had returned before the i-th
\* write_events call of the last call was made.
DeliveredBefore(i) ==
    SubSeq(delivered, 1, Len(delivered) - Len(Flatten(Batches(last.writes, FALSE))))
        \o Flatten(Batches(SubSeq(last.writes, 1, i - 1), FALSE))

\* C17 as stated: each write_events call receives exactly the events admitted
\* since the previous write_events call, in append order, as one batch (so no
\* event is handed to two calls); and in the runs where no write raised the
\* batches, in the order of the calls, followed by the buffer are the admission
\* sequence (looked at with a threshold of 1 or more).
C17_Original ==
    /\ flush_threshold >= 1 =>
            \A e \in Range(admitted) : Count(e, delivered) + Count(e, Flatten(refused)) <= 1
    /\ refused = <<>> => delivered \o events = admitted

\* C17 as amended: each write_events call receives, as one batch and in append
\* order, exactly the events admitted since the previous write_events call that
\* returned; the batches of the calls that returned, in the order of the calls,
\* followed by the buffer are the admission sequence: no event is lost,
\* duplicated or reordered, whether a write raised or not.
C17_BatchesPartitionAdmissions ==
    /\ delivered \o events = admitted
    /\ \A i \in DOMAIN last.writes :
            LET w == last.writes[i]
                n == Len(DeliveredBefore(i))
            IN  /\ w.batch # <<>>
                /\ w.batch = SubSeq(admitted, n + 1, n + Len(w.batch))
    /\ \A i \in DOMAIN last.reports :
            LET r == last.reports[i]
            IN  \A j \in DOMAIN r.writes : r.writes[j].batch = Append(r.pre, r.ev)
    /\ (last.reports = <<>> /\ last.writes # <<>>)
            => (Len(last.writes) = 1 /\ last.writes[1].batch = last.preEvents)

C17_Witness ==
    /\ refused # <<>>
    /\ delivered = <<1, 2>> /\ events = <<>>
    /\ Len(last.writes) = 1 /\ Len(last.writes[1].batch) = 2

\* The handles the write_events calls ws register: one for each call made
\* with async_enable true that returned.
Registered(ws) == {ws[i].batch : i \in {j \in DOMAIN ws : ws[j].async /\ ws[j].outcome # "raised"}}

\* C18 as stated: each internal write on a non-empty buffer registers exactly
\* one handle when async_enable is true at the time of the write and none when
\* it is false: a call leaves as many handles more than it found as it made
\* write_events calls with async_enable true (looked at with a threshold of 1
\* or more).
C18_Original ==
    flush_threshold >= 1
        => get_num_results(last.tracked)
               = get_num_results(last.preResults)
                     + NumAsync(last.writes, FALSE) + NumAsync(last.writes, TRUE)

\* C18 as amended: each internal write on a non-empty buffer whose write_events
\* call returns registers exactly one handle when async_enable is true at the
\* time of the write and none when it is false, and a call that raises registers
\* none; get_num_results() is the number of write_events calls made with
\* async_enable true that returned since the last wait_for_results or the
\* construction.
C18_OneHandlePerReturnedAsyncWrite ==
    /\ get_num_results(results) = asyncWrites
    /\ last.tracked = last.preResults \cup Registered(last.writes)
    /\ get_num_results(last.tracked)
            = get_num_results(last.preResults) + NumAsync(last.writes, FALSE)
    /\ results = IF last.waited THEN {} ELSE last.tracked

C18_Witness ==
    /\ get_num_results(results) = 1
    /\ Len(delivered) = 2
    /\ last.writes # <<>> /\ ~last.writes[1].async /\ last.writes[1].outcome = "ok"
    /\ last.preResults # {}

\* C19: a report_* call never waits for async results: each of its _report
\* steps only appends below the threshold and only issues the write at the
\* threshold; wait_for_results is called by flush() alone (called as such or by
\* an exit without an error), so a report_* call only adds to the tracked
\* handles: one for each write it makes with async_enable true that returns.
C19_ReportNeverWaits ==
    /\ last.op \in ReportOps
        => /\ pc = "idle" /\ ~last.waited /\ last.outcome # "waiting"
           /\ last.nflush = 0
           /\ last.preResults \subseteq results
           /\ get_num_results(results)
                   = get_num_results(last.preResults) + NumAsync(last.writes, FALSE)
           /\ \A i \in DOMAIN last.reports :
                LET r == last.reports[i]
                IN  /\ Len(r.pre) + 1 < flush_threshold
                            => (r.writes = <<>> /\ r.post = Append(r.pre, r.ev))
                    /\ Len(r.pre) + 1 >= flush_threshold => Len(r.writes) = 1
    /\ (pc = "flush_wait" \/ last.waited)
        => /\ last.op \in {"flush", "__exit__"}
           /\ IsFlush
           /\ ~last.exc_type

C19_Witness ==
    /\ last.op \in ReportOps /\ last.outcome = "returned"
    /\ async_enable
    /\ get_num_results(results) = 2
    /\ get_num_results(last.preResults) = 1

\* C20: setting flush_threshold or async_enable issues no write and leaves the
\* buffer and the async result set as they are, so the buffer may hold as many
\* events as the threshold, or more, between two calls; the next report_* call
\* that returns writes the whole accumulated buffer, with its own event, as a
\* single batch.
C20_SettersDoNotWrite ==
    /\ last.op \in {"flush_threshold", "async_enable"}
        => /\ last.writes = <<>>
           /\ events = last.preEvents
           /\ results = last.preResults
           /\ delivered \o events = admitted
           /\ pc = "idle"
    /\ (last.op \in ReportOps /\ last.outcome = "returned"
            /\ Len(last.preEvents) >= flush_threshold)
        => /\ Len(last.reports[1].writes) = 1
           /\ last.writes[1].batch = Append(last.preEvents, last.reports[1].ev)
           /\ last.writes[1].left = <<>>

C20_Witness ==
    /\ last.op \in ReportOps /\ last.outcome = "returned"
    /\ refused = <<>>
    /\ flush_threshold = 1
    /\ Len(last.preEvents) = 1
    /\ Len(last.writes[1].batch) = 2

\* What the list handed as h holds now: the Reporter changes no list but the
\* one self._events refers to.
ListNow(h) == IF h.list = heap.events THEN events ELSE h.batch

IsPrefix(a, b) == Len(a) <= Len(b) /\ SubSeq(b, 1, Len(a)) = a

\* C21 as stated: the list handed to write_events is never changed by the
\* Reporter afterwards: events appended by later calls never appear in it and
\* nothing is removed from it.
C21_Original ==
    \A h \in heap.handed : ListNow(h) = h.batch

\* C21 as amended: once write_events has returned, self._events is a new empty
\* list and the list that was handed is never changed by the Reporter: events
\* appended later (while its async write is in flight or after) never appear
\* in it and nothing is removed from it.  When write_events raised, the list
\* that was handed is still the buffer: later events are appended to it, and
\* nothing is removed from it.
C21_ReturnedBatchIsNotTheBuffer ==
    \A h \in heap.handed :
        /\ h.outcome # "raised" => (h.list # heap.events /\ ListNow(h) = h.batch)
        /\ h.outcome = "raised" => (h.list = heap.events /\ IsPrefix(h.batch, ListNow(h)))

C21_Witness ==
    /\ last.op \in ReportOps /\ last.outcome = "returned"
    /\ events # <<>>
    /\ \E h \in heap.handed :
        /\ h.async /\ h.outcome = "ok"
        /\ h.batch \in results \ resolved
        /\ Len(admitted) > h.list + Len(h.batch)

\* C22: a report_image_plot_and_upload call that returns admits exactly two
\* events, the image event and then the plot event, and checks the threshold
\* after each admission: the two events may go out in two batches, and with a
\* threshold of 1 or less the call makes two write_events calls, the first
\* ending with the image event and the second holding the plot event alone.
\* Every other report_* call that returns admits exactly one event and makes
\* at most one write_events call.
C22_TwoEventsTwoChecks ==
    /\ (last.op = "report_image_plot_and_upload" /\ last.outcome = "returned")
        => /\ last.kinds = <<"ImageEvent", "PlotEvent">>
           /\ Len(last.reports) = 2
           /\ last.reports[1].pre = last.preEvents
           /\ last.reports[2].pre = last.reports[1].post
           /\ last.reports[2].ev = last.reports[1].ev + 1
           /\ SubSeq(admitted, Len(admitted) - 1, Len(admitted))
                  = <<last.reports[1].ev, last.reports[2].ev>>
           /\ \A i \in 1..2 :
                LET r == last.reports[i]
                IN  /\ Len(r.writes) = IF Len(r.pre) + 1 >= flush_threshold THEN 1 ELSE 0
                    /\ r.writes # <<>> => r.writes[1].batch = Append(r.pre, r.ev)
           /\ flush_threshold <= 1
                => /\ Len(last.writes) = 2
                   /\ last.writes[1].batch = Append(last.preEvents, last.reports[1].ev)
                   /\ last.writes[2].batch = <<last.reports[2].ev>>
    /\ (last.op \in ReportOps \ {"report_image_plot_and_upload"}
            /\ last.outcome = "returned")
        => /\ Len(last.kinds) = 1
           /\ Len(last.reports) = 1
           /\ Len(last.writes) <= 1

C22_Witness ==
    /\ last.op = "report_image_plot_and_upload" /\ last.outcome = "returned"
    /\ flush_threshold = 1
    /\ Len(last.writes) = 2
    /\ delivered = <<1, 2>>
====
